---------------------------- MODULE Spec2Model ----------------------------
(***************************************************************************)
(* nototools/hb_input.py: HbInputGenerator.  For a glyph of a font, derive *)
(* the (features, text) pair that makes a shaping engine produce it, by    *)
(* walking the GSUB substitution rules backwards to a Unicode sequence.    *)
(*                                                                         *)
(* A font is a record                                                      *)
(*   cmap       the items() of summary.get_largest_cmap(font): a sequence  *)
(*              of <<code point, glyph name>> in the dict's iteration order*)
(*   glyphOrder font.getGlyphOrder()                                       *)
(*   width      glyph name -> advance width (font.getGlyphSet()[n].width)  *)
(*   tables     the table tags present ('GSUB' in font)                    *)
(*   GSUB       font['GSUB'].table:                                        *)
(*     hasLookupList  FALSE when gsub.LookupList is None                   *)
(*     Lookup         gsub.LookupList.Lookup, records [LookupType,SubTable]*)
(*     FeatureRecord  gsub.FeatureList.FeatureRecord, records              *)
(*                    [FeatureTag, LookupListIndex]                        *)
(* A subtable is, by lookup type,                                          *)
(*   1  [mapping |-> items() of st.mapping: <<glyph, subst>> pairs]        *)
(*   4  [ligatures |-> items() of st.ligatures: <<prefix, records>>, each  *)
(*       record [LigGlyph, Component]]                                     *)
(*   6  [SubstLookupRecord |-> target LookupListIndex values,              *)
(*       LookAheadCoverage, BacktrackCoverage |-> sequences of coverages,  *)
(*       each the sequence of its .glyphs]                                 *)
(* Lookup indices are 0-based as in the font; sequences are 1-based.       *)
(* Text is a sequence of code points.                                      *)
(***************************************************************************)
EXTENDS Naturals, Sequences, FiniteSets

VARIABLES font, reverse_cmap, pc, call, result, i, inputs

vars == <<font, reverse_cmap, pc, call, result, i, inputs>>

(***************************************************************************)
(* Bounds of the model.                                                    *)
(***************************************************************************)
\* The interpreter's recursion limit: frames available to one top-level call.
\* With three glyphs a resolution that visits no glyph twice nests fewer
\* calls than this, so only a cyclic resolution reaches the limit.
MaxDepth == 12
\* Length of the non-default feature tuple passed by a caller.
MaxFeatures == 1
\* Longest glyph list passed to the sequence assembler by a caller.
MaxSequence == 2
\* Longest Component list of a ligature record of the fonts enumerated.
MaxComponents == 1

\* U+0020, the character of the padding '  ' (line 57).
SPACE == 32

Glyphs == {"a", "b", "c"}

(***************************************************************************)
(* Outcomes of a call: a returned tuple, a returned None, or a raised      *)
(* exception.                                                              *)
(***************************************************************************)
Ok(features, text) == [kind |-> "ok", features |-> features, text |-> text]
NoResult == [kind |-> "None"]
ValueError(lookup_index) == [kind |-> "ValueError", lookup_index |-> lookup_index]
TypeError == [kind |-> "TypeError"]
RecursionError == [kind |-> "RecursionError"]

\* unichr(v): the one-character string of code point v (v in the Basic
\* Multilingual Plane, as the code points of the fonts below are).
unichr(v) == <<v>>

\* A mutant: one space of padding.
Pad_OneSpace(text) == <<SPACE>> \o text

\* '  ' + text
Pad(text) == <<SPACE, SPACE>> \o text

\* ''.join(text) for a list of strings.
RECURSIVE Join(_)
Join(text) == IF text = <<>> THEN <<>> ELSE Head(text) \o Join(Tail(text))

(***************************************************************************)
(* build_reverse_cmap: {n: v for v, n in cmap.items()}.  The comprehension *)
(* inserts in iteration order, so a later item overwrites an earlier one   *)
(* with the same glyph name.                                               *)
(***************************************************************************)
DictPut(d, k, v) == [x \in (DOMAIN d) \cup {k} |-> IF x = k THEN v ELSE d[x]]

RECURSIVE DictFromItems(_, _, _)
DictFromItems(items, j, d) ==
    IF j > Len(items) THEN d
    ELSE DictFromItems(items, j + 1, DictPut(d, items[j][2], items[j][1]))

EmptyDict == [x \in {} |-> 0]

\* A mutant: the comprehension written over enumerate(cmap), binding the
\* position where the code point should be.
build_reverse_cmap_enumerate(f) ==
    DictFromItems([j \in DOMAIN f.cmap |-> <<j, f.cmap[j][2]>>], 1, EmptyDict)

build_reverse_cmap(f) == DictFromItems(f.cmap, 1, EmptyDict)

(***************************************************************************)
(* input_from_name, _input_with_context and _sequence_from_glyph_names.    *)
(* d is the number of interpreter frames still available; a call made with *)
(* none left raises the interpreter's recursion error.  No function        *)
(* catches an exception, so a raised outcome is passed up unchanged.       *)
(***************************************************************************)
RECURSIVE input_from_name(_, _, _, _)
RECURSIVE ScanLookups(_, _, _, _)
RECURSIVE ScanSubTables(_, _, _, _, _)
RECURSIVE ScanMapping(_, _, _, _, _, _)
RECURSIVE ScanLigatures(_, _, _, _, _, _, _)
RECURSIVE _input_with_context(_, _, _, _, _)
RECURSIVE ScanFeatures(_, _, _, _, _, _)
RECURSIVE ScanChainLookups(_, _, _, _, _, _)
RECURSIVE ScanChainSubTables(_, _, _, _, _, _, _)
RECURSIVE ScanSubstLookupRecords(_, _, _, _, _, _, _, _)
RECURSIVE _sequence_from_glyph_names(_, _, _)
RECURSIVE SequenceLoop(_, _, _, _, _)

\* Lines 53-65: the direct hit, then the guards on the GSUB table.
input_from_name(name, features, pad, d) ==
    IF d = 0 THEN RecursionError
    ELSE IF name \in DOMAIN reverse_cmap
    THEN LET text == unichr(reverse_cmap[name])
         IN  Ok(features, IF pad THEN Pad(text) ELSE text)
    ELSE IF "GSUB" \notin font.tables THEN NoResult
    ELSE IF ~font.GSUB.hasLookupList THEN NoResult
    ELSE ScanLookups(name, features, 1, d)

\* A mutant: falling off the loop returns an empty input, not None.
ScanLookups_EmptyInput(name, features, li, d) ==
    IF li > Len(font.GSUB.Lookup) THEN Ok(features, <<>>)
    ELSE ScanSubTables(name, features, li, 1, d)

\* Line 66: for lookup_index, lookup in enumerate(gsub.LookupList.Lookup);
\* falling off the loop returns None.
ScanLookups(name, features, li, d) ==
    IF li > Len(font.GSUB.Lookup) THEN NoResult
    ELSE ScanSubTables(name, features, li, 1, d)

\* Lines 67-77: for st in lookup.SubTable, dispatched on lookup.LookupType.
ScanSubTables(name, features, li, si, d) ==
    LET lookup == font.GSUB.Lookup[li]
    IN  IF si > Len(lookup.SubTable) THEN ScanLookups(name, features, li + 1, d)
        ELSE IF lookup.LookupType = 1
        THEN ScanMapping(name, features, li, si, 1, d)
        ELSE IF lookup.LookupType = 4
        THEN ScanLigatures(name, features, li, si, 1, 1, d)
        ELSE ScanSubTables(name, features, li, si + 1, d)

\* A mutant: a rule whose resolution gives None is passed over and the
\* search goes on.
ScanMapping_Backtracking(name, features, li, si, mi, d) ==
    LET mapping == font.GSUB.Lookup[li].SubTable[si].mapping
        found == _input_with_context(font.GSUB, mapping[mi][1], li - 1, features,
                                     d - 1)
    IN  IF mi > Len(mapping) THEN ScanSubTables(name, features, li, si + 1, d)
        ELSE IF mapping[mi][2] = name /\ found.kind # "None" THEN found
        ELSE ScanMapping(name, features, li, si, mi + 1, d)

\* Lines 71-74: for glyph, subst in st.mapping.items().
ScanMapping(name, features, li, si, mi, d) ==
    LET mapping == font.GSUB.Lookup[li].SubTable[si].mapping
    IN  IF mi > Len(mapping) THEN ScanSubTables(name, features, li, si + 1, d)
        ELSE IF mapping[mi][2] = name
        THEN _input_with_context(font.GSUB, mapping[mi][1], li - 1, features, d - 1)
        ELSE ScanMapping(name, features, li, si, mi + 1, d)

\* A mutant: the first component is put after the remaining ones.
ScanLigatures_PrefixLast(name, features, li, si, pi, ri, d) ==
    LET ligatures == font.GSUB.Lookup[li].SubTable[si].ligatures
    IN  IF pi > Len(ligatures) THEN ScanSubTables(name, features, li, si + 1, d)
        ELSE IF ri > Len(ligatures[pi][2])
        THEN ScanLigatures(name, features, li, si, pi + 1, 1, d)
        ELSE IF ligatures[pi][2][ri].LigGlyph = name
        THEN _sequence_from_glyph_names(
                 ligatures[pi][2][ri].Component \o <<ligatures[pi][1]>>,
                 features, d - 1)
        ELSE ScanLigatures(name, features, li, si, pi, ri + 1, d)

\* Lines 78-83: for prefix, ligatures in st.ligatures.items(): for ligature
\* in ligatures.
ScanLigatures(name, features, li, si, pi, ri, d) ==
    LET ligatures == font.GSUB.Lookup[li].SubTable[si].ligatures
    IN  IF pi > Len(ligatures) THEN ScanSubTables(name, features, li, si + 1, d)
        ELSE IF ri > Len(ligatures[pi][2])
        THEN ScanLigatures(name, features, li, si, pi + 1, 1, d)
        ELSE IF ligatures[pi][2][ri].LigGlyph = name
        THEN _sequence_from_glyph_names(
                 <<ligatures[pi][1]>> \o ligatures[pi][2][ri].Component,
                 features, d - 1)
        ELSE ScanLigatures(name, features, li, si, pi, ri + 1, d)

\* Lines 86-113.
_input_with_context(gsub, glyph, lookup_index, features, d) ==
    IF d = 0 THEN RecursionError
    ELSE ScanFeatures(gsub, glyph, lookup_index, features, 1, d)

\* A mutant: the tag of the feature record found is not added.
ScanFeatures_NoTag(gsub, glyph, lookup_index, features, fi, d) ==
    IF fi > Len(gsub.FeatureRecord)
    THEN ScanChainLookups(gsub, glyph, lookup_index, features, 1, d)
    ELSE IF lookup_index \in gsub.FeatureRecord[fi].LookupListIndex
    THEN input_from_name(glyph, features, FALSE, d - 1)
    ELSE ScanFeatures(gsub, glyph, lookup_index, features, fi + 1, d)

\* Lines 92-95: the first feature record listing the lookup gives its tag.
ScanFeatures(gsub, glyph, lookup_index, features, fi, d) ==
    IF fi > Len(gsub.FeatureRecord)
    THEN ScanChainLookups(gsub, glyph, lookup_index, features, 1, d)
    ELSE IF lookup_index \in gsub.FeatureRecord[fi].LookupListIndex
    THEN input_from_name(glyph, Append(features, gsub.FeatureRecord[fi].FeatureTag),
                         FALSE, d - 1)
    ELSE ScanFeatures(gsub, glyph, lookup_index, features, fi + 1, d)

\* A mutant: falling off the loop returns None instead of raising.
ScanChainLookups_ReturnsNone(gsub, glyph, lookup_index, features, li, d) ==
    IF li > Len(gsub.Lookup) THEN NoResult
    ELSE ScanChainSubTables(gsub, glyph, lookup_index, features, li, 1, d)

\* Lines 98, 113: for lookup in gsub.LookupList.Lookup; falling off raises.
ScanChainLookups(gsub, glyph, lookup_index, features, li, d) ==
    IF li > Len(gsub.Lookup) THEN ValueError(lookup_index)
    ELSE ScanChainSubTables(gsub, glyph, lookup_index, features, li, 1, d)

\* Lines 99-101: for st in lookup.SubTable, skipping lookups not of type 6.
ScanChainSubTables(gsub, glyph, lookup_index, features, li, si, d) ==
    LET lookup == gsub.Lookup[li]
    IN  IF si > Len(lookup.SubTable)
        THEN ScanChainLookups(gsub, glyph, lookup_index, features, li + 1, d)
        ELSE IF lookup.LookupType # 6
        THEN ScanChainSubTables(gsub, glyph, lookup_index, features, li, si + 1, d)
        ELSE ScanSubstLookupRecords(gsub, glyph, lookup_index, features, li, si, 1, d)

\* A mutant: the backtrack context is tried before the lookahead context.
ScanSubstLookupRecords_BacktrackFirst(gsub, glyph, lookup_index, features, li, si, ri, d) ==
    LET st == gsub.Lookup[li].SubTable[si]
    IN  IF ri > Len(st.SubstLookupRecord)
        THEN ScanChainSubTables(gsub, glyph, lookup_index, features, li, si + 1, d)
        ELSE IF st.SubstLookupRecord[ri] # lookup_index
        THEN ScanSubstLookupRecords(gsub, glyph, lookup_index, features,
                                    li, si, ri + 1, d)
        ELSE IF st.BacktrackCoverage # <<>>
        THEN _sequence_from_glyph_names(<<st.BacktrackCoverage[1][1], glyph>>,
                                        features, d - 1)
        ELSE IF st.LookAheadCoverage # <<>>
        THEN _sequence_from_glyph_names(<<glyph, st.LookAheadCoverage[1][1]>>,
                                        features, d - 1)
        ELSE ScanSubstLookupRecords(gsub, glyph, lookup_index, features,
                                    li, si, ri + 1, d)

\* Lines 102-111: for sub_lookup in st.SubstLookupRecord.
ScanSubstLookupRecords(gsub, glyph, lookup_index, features, li, si, ri, d) ==
    LET st == gsub.Lookup[li].SubTable[si]
    IN  IF ri > Len(st.SubstLookupRecord)
        THEN ScanChainSubTables(gsub, glyph, lookup_index, features, li, si + 1, d)
        ELSE IF st.SubstLookupRecord[ri] # lookup_index
        THEN ScanSubstLookupRecords(gsub, glyph, lookup_index, features,
                                    li, si, ri + 1, d)
        ELSE IF st.LookAheadCoverage # <<>>
        THEN _sequence_from_glyph_names(<<glyph, st.LookAheadCoverage[1][1]>>,
                                        features, d - 1)
        ELSE IF st.BacktrackCoverage # <<>>
        THEN _sequence_from_glyph_names(<<st.BacktrackCoverage[1][1], glyph>>,
                                        features, d - 1)
        ELSE ScanSubstLookupRecords(gsub, glyph, lookup_index, features,
                                    li, si, ri + 1, d)

\* Lines 116-123.
_sequence_from_glyph_names(glyphs, features, d) ==
    IF d = 0 THEN RecursionError
    ELSE SequenceLoop(glyphs, 1, features, <<>>, d)

\* A mutant: a glyph that resolves to None is left out of the text.
SequenceLoop_SkipsNone(glyphs, gi, features, text, d) ==
    IF gi > Len(glyphs) THEN Ok(features, Join(text))
    ELSE LET r == input_from_name(glyphs[gi], features, FALSE, d - 1)
         IN  IF r.kind = "None" THEN SequenceLoop(glyphs, gi + 1, features, text, d)
             ELSE IF r.kind # "ok" THEN r
             ELSE SequenceLoop(glyphs, gi + 1, r.features, Append(text, r.text), d)

\* Lines 120-123: unpacking a returned None into (features, cur_text)
\* raises TypeError.
SequenceLoop(glyphs, gi, features, text, d) ==
    IF gi > Len(glyphs) THEN Ok(features, Join(text))
    ELSE LET r == input_from_name(glyphs[gi], features, FALSE, d - 1)
         IN  IF r.kind = "None" THEN TypeError
             ELSE IF r.kind # "ok" THEN r
             ELSE SequenceLoop(glyphs, gi + 1, r.features, Append(text, r.text), d)

(***************************************************************************)
(* The fonts of the model.                                                 *)
(***************************************************************************)
CodePoints == {65, 66}
Tags == {"test", "liga"}
GlyphOrder == <<"b", "a", "c">>
Widths == {0, 600}

\* Sequences over S of length at most n.
SeqUpTo(S, n) == UNION {[1..m -> S] : m \in 0..n}

\* A dict's items(): the keys are distinct.
DistinctKeys(items) ==
    \A j, k \in DOMAIN items : items[j][1] = items[k][1] => j = k

Single(mapping) == [mapping |-> mapping]
Ligature(ligatures) == [ligatures |-> ligatures]
Chain(records, lookahead, backtrack) ==
    [SubstLookupRecord |-> records, LookAheadCoverage |-> lookahead,
     BacktrackCoverage |-> backtrack]
Lookup(type, subtables) == [LookupType |-> type, SubTable |-> subtables]
Feature(tag, indices) == [FeatureTag |-> tag, LookupListIndex |-> indices]
Gsub(lookups, features) ==
    [hasLookupList |-> TRUE, Lookup |-> lookups, FeatureRecord |-> features]
NoLookupList == [hasLookupList |-> FALSE, Lookup |-> <<>>, FeatureRecord |-> <<>>]

FontWith(cmap, width, tables, gsub) ==
    [cmap |-> cmap, glyphOrder |-> GlyphOrder, width |-> width,
     tables |-> tables, GSUB |-> gsub]

\* Fonts varying in the cmap and the advance widths, with little or no GSUB.
CmapItems == {c \in SeqUpTo(CodePoints \X Glyphs, 2) : DistinctKeys(c)}

SmallGsubs ==
    {NoLookupList, Gsub(<<>>, <<>>),
     Gsub(<<Lookup(1, <<Single(<<<<"a", "b">>>>)>>)>>, <<Feature("test", {0})>>)}

CmapFonts ==
    {FontWith(c, w, {"cmap"}, NoLookupList) :
        c \in CmapItems, w \in [Glyphs -> Widths]}
    \cup {FontWith(c, w, {"cmap", "GSUB"}, g) :
            c \in CmapItems, w \in [Glyphs -> Widths], g \in SmallGsubs}

\* The other fonts map at most "a" and "c", in this order, and have
\* non-zero widths.
GsubCmaps == {<<<<65, "a">>>>, <<<<66, "c">>>>, <<<<65, "a">>, <<66, "c">>>>}
NonZeroWidth == [g \in Glyphs |-> 600]
GsubFonts(cmaps, lookups, features) ==
    {FontWith(c, NonZeroWidth, {"cmap", "GSUB"}, Gsub(l, f)) :
        c \in cmaps, l \in lookups, f \in features}

\* Fonts of single substitutions (type 1), and of a type the generator
\* does not read (2), under up to two feature records.
Pairs == {<<"a", "b">>, <<"c", "b">>, <<"b", "a">>, <<"c", "a">>}
Mappings == {m \in SeqUpTo(Pairs, 2) : m # <<>> /\ DistinctKeys(m)}
SingleLookups ==
    {<<Lookup(1, <<Single(m)>>)>> : m \in Mappings}
    \cup {<<Lookup(1, <<Single(<<p>>)>>), Lookup(1, <<Single(<<q>>)>>)>> :
            p \in Pairs, q \in Pairs}
    \cup {<<Lookup(t, <<Single(<<p>>), Single(<<<<"a", "b">>>>)>>)>> :
            p \in Pairs, t \in {1, 2}}
FeatureRecords == {Feature(t, {k}) : t \in Tags, k \in {0, 1}}
SingleFonts == GsubFonts(GsubCmaps, SingleLookups, SeqUpTo(FeatureRecords, 2))

\* Fonts of a ligature substitution (type 4) emitting "b", alone or beside
\* a single substitution.
LigatureRecord(lig, component) == [LigGlyph |-> lig, Component |-> component]
Ligatures ==
    {<<<<p, <<LigatureRecord("b", c)>>>>>> :
        p \in Glyphs, c \in SeqUpTo(Glyphs, MaxComponents)}
    \cup {<<<<"a", <<LigatureRecord("c", <<"b">>), LigatureRecord("b", <<"c">>),
                    LigatureRecord("b", <<"a">>)>>>>>>,
          <<<<"c", <<LigatureRecord("a", <<"c">>)>>>>,
            <<"a", <<LigatureRecord("b", <<"c">>)>>>>>>}
LigatureLookups ==
    {<<Lookup(4, <<Ligature(l)>>)>> : l \in Ligatures}
    \cup {<<Lookup(1, <<Single(<<p>>)>>), Lookup(4, <<Ligature(l)>>)>> :
            p \in Pairs, l \in Ligatures}
    \cup {<<Lookup(4, <<Ligature(l)>>), Lookup(1, <<Single(<<p>>)>>)>> :
            p \in Pairs, l \in Ligatures}
    \cup {<<Lookup(4, <<Ligature(l), Ligature(<<<<"a", <<LigatureRecord("b", <<"c">>)>>>>>>)>>)>> :
            l \in Ligatures}
LigatureFeatures == {<<>>, <<Feature("test", {0})>>, <<Feature("test", {1})>>}
LigatureFonts == GsubFonts(GsubCmaps, LigatureLookups, LigatureFeatures)

\* Fonts of a single substitution at index 0 and chaining contextual
\* substitutions (type 6) at index 1.
Coverages == {<<>>, <<<<"c">>>>, <<<<"a", "c">>, <<"b">>>>}
ChainSubTables ==
    {Chain(r, la, bt) :
        r \in {<<0>>, <<1>>, <<1, 0>>}, la \in Coverages, bt \in Coverages}
ChainLookups ==
    {<<Lookup(1, <<Single(<<p>>)>>), Lookup(6, <<st>>)>> :
        p \in {<<"a", "b">>, <<"c", "a">>}, st \in ChainSubTables}
    \cup {<<Lookup(1, <<Single(<<<<"a", "b">>>>)>>), Lookup(6, <<s1, s2>>)>> :
            s1 \in ChainSubTables, s2 \in {Chain(<<0>>, la, bt) :
                                             la \in Coverages, bt \in Coverages}}
ChainFeatures == {<<>>, <<Feature("test", {0})>>}
ChainFonts ==
    GsubFonts({<<<<66, "c">>>>, <<<<65, "a">>, <<66, "c">>>>}, ChainLookups,
              ChainFeatures)

Fonts == CmapFonts \cup SingleFonts \cup LigatureFonts \cup ChainFonts

(***************************************************************************)
(* The state machine: a generator constructed on a font, and one call of   *)
(* one of its methods.                                                     *)
(***************************************************************************)
NoCall == [op |-> "none"]
Pending == [kind |-> "pending"]

\* Lines 28-30: __init__.
Init ==
    /\ font \in Fonts
    /\ reverse_cmap = build_reverse_cmap(font)
    /\ pc = "idle"
    /\ call = NoCall
    /\ result = Pending
    /\ i = 0
    /\ inputs = <<>>

\* The features a caller passes: the default (), or MaxFeatures tags.
InitialFeatures == {<<>>, [j \in 1..MaxFeatures |-> "kern"]}

\* The glyph lists a caller passes: up to MaxSequence different glyphs.
GlyphLists ==
    {g \in SeqUpTo(Glyphs, MaxSequence) :
        \A j, k \in DOMAIN g : g[j] = g[k] => j = k}

\* A call of input_from_name(name, features, pad).
InputFromName ==
    /\ pc = "idle"
    /\ \E name \in Glyphs, features \in InitialFeatures, pad \in BOOLEAN :
          /\ call' = [op |-> "input_from_name", name |-> name,
                      features |-> features, pad |-> pad]
          /\ result' = input_from_name(name, features, pad, MaxDepth)
    /\ pc' = "done"
    /\ UNCHANGED <<font, reverse_cmap, i, inputs>>

\* A call of _input_with_context(gsub, glyph, lookup_index, features), with
\* the font's own GSUB table and the index of one of its lookups.
InputWithContext ==
    /\ pc = "idle"
    /\ "GSUB" \in font.tables
    /\ font.GSUB.hasLookupList
    /\ \E glyph \in Glyphs, li \in DOMAIN font.GSUB.Lookup,
          features \in InitialFeatures :
          /\ call' = [op |-> "_input_with_context", glyph |-> glyph,
                      lookup_index |-> li - 1, features |-> features]
          /\ result' = _input_with_context(font.GSUB, glyph, li - 1, features,
                                           MaxDepth)
    /\ pc' = "done"
    /\ UNCHANGED <<font, reverse_cmap, i, inputs>>

\* A call of _sequence_from_glyph_names(glyphs, features).
SequenceFromGlyphNames ==
    /\ pc = "idle"
    /\ \E glyphs \in GlyphLists, features \in InitialFeatures :
          /\ call' = [op |-> "_sequence_from_glyph_names", glyphs |-> glyphs,
                      features |-> features]
          /\ result' = _sequence_from_glyph_names(glyphs, features, MaxDepth)
    /\ pc' = "done"
    /\ UNCHANGED <<font, reverse_cmap, i, inputs>>

\* Lines 35-37: all_inputs() starts with an empty list.
AllInputsBegin ==
    /\ pc = "idle"
    /\ call' = [op |-> "all_inputs"]
    /\ inputs' = <<>>
    /\ i' = 1
    /\ pc' = "loop"
    /\ UNCHANGED <<font, reverse_cmap, result>>

\* Lines 38-44: one iteration of the loop over the glyph order.  A None is
\* dropped (with warn, reported by a print, which changes no state); an
\* exception leaves all_inputs.
AllInputsStep ==
    /\ pc = "loop"
    /\ i <= Len(font.glyphOrder)
    /\ LET name == font.glyphOrder[i]
           is_zero_width == font.width[name] = 0
           cur_input == input_from_name(name, <<>>, is_zero_width, MaxDepth - 1)
       IN  IF cur_input.kind = "ok"
           THEN /\ inputs' = Append(inputs, <<cur_input.features, cur_input.text>>)
                /\ i' = i + 1
                /\ UNCHANGED <<pc, result>>
           ELSE IF cur_input.kind = "None"
           THEN /\ i' = i + 1
                /\ UNCHANGED <<pc, result, inputs>>
           ELSE /\ pc' = "raised"
                /\ result' = cur_input
                /\ UNCHANGED <<i, inputs>>
    /\ UNCHANGED <<font, reverse_cmap, call>>

\* Line 45: return inputs.
AllInputsReturn ==
    /\ pc = "loop"
    /\ i > Len(font.glyphOrder)
    /\ pc' = "returned"
    /\ result' = [kind |-> "list", inputs |-> inputs]
    /\ UNCHANGED <<font, reverse_cmap, call, i, inputs>>

Next ==
    \/ InputFromName
    \/ InputWithContext
    \/ SequenceFromGlyphNames
    \/ AllInputsBegin
    \/ AllInputsStep
    \/ AllInputsReturn

Spec == Init /\ [][Next]_vars

(***************************************************************************)
(* Vocabulary of the properties, read off the font, not off the generator. *)
(***************************************************************************)
\* The forward Unicode -> glyph map sends code point c to glyph g.
ForwardMaps(c, g) == \E j \in DOMAIN font.cmap : font.cmap[j] = <<c, g>>

\* g has a direct Unicode hit.
DirectHit(g) == \E j \in DOMAIN font.cmap : font.cmap[j][2] = g

\* text_of(g): the one-code-point texts that the forward map sends to g.
TextsOf(g) == {<<font.cmap[j][1]>> : j \in {k \in DOMAIN font.cmap : font.cmap[k][2] = g}}

\* The lookups the generator may read.
Lookups == IF "GSUB" \in font.tables /\ font.GSUB.hasLookupList
           THEN font.GSUB.Lookup ELSE <<>>

\* The places <<lookup, subtable, item, record>> (1-based) of the type 1 and
\* type 4 rules that emit glyph name; a type 1 rule has record 0.
EmitPositions(name) ==
    UNION {UNION {
        LET st == Lookups[li].SubTable[si]
        IN  IF Lookups[li].LookupType = 1
            THEN {<<li, si, mi, 0>> :
                    mi \in {m \in DOMAIN st.mapping : st.mapping[m][2] = name}}
            ELSE IF Lookups[li].LookupType = 4
            THEN UNION {{<<li, si, pi, ri>> :
                           ri \in {r \in DOMAIN st.ligatures[pi][2] :
                                     st.ligatures[pi][2][r].LigGlyph = name}} :
                        pi \in DOMAIN st.ligatures}
            ELSE {} :
        si \in DOMAIN Lookups[li].SubTable} : li \in DOMAIN Lookups}

\* Table order: lookups, then subtables, then items, then records.
Before(p, q) ==
    \E k \in 1..4 : p[k] < q[k] /\ \A j \in 1..(k - 1) : p[j] = q[j]

IsFirstEmitting(p, name) ==
    /\ p \in EmitPositions(name)
    /\ \A q \in EmitPositions(name) : q = p \/ Before(p, q)

\* The feature records (1-based) that list lookup index k.
Listing(k) ==
    {fi \in DOMAIN font.GSUB.FeatureRecord :
        k \in font.GSUB.FeatureRecord[fi].LookupListIndex}

\* The type 6 subtables <<lookup, subtable>> with a SubstLookupRecord for
\* lookup index k and a non-empty lookahead or backtrack context.
ChainsTo(k) ==
    {q \in UNION {{<<li, si>> : si \in DOMAIN Lookups[li].SubTable} :
                    li \in {l \in DOMAIN Lookups : Lookups[l].LookupType = 6}} :
        LET st == Lookups[q[1]].SubTable[q[2]]
        IN  /\ \E ri \in DOMAIN st.SubstLookupRecord : st.SubstLookupRecord[ri] = k
            /\ (st.LookAheadCoverage # <<>> \/ st.BacktrackCoverage # <<>>)}

IsInputFromName == call.op = "input_from_name"

(***************************************************************************)
(* C1.  For every glyph g that is the value of at least one code point in  *)
(* the forward Unicode -> glyph map, input_from_name(g) with default       *)
(* arguments returns (features, text) with features the unchanged (empty)  *)
(* input features and text exactly one code point c that the forward map   *)
(* sends to g; the outcome is the same whatever the GSUB table holds, also *)
(* when one of its rules emits g.                                          *)
(***************************************************************************)
\* C1: a default call on a glyph of the forward map returns ((), one code
\* point mapped to it).
C1_DirectHitRoundTrip ==
    (/\ IsInputFromName
     /\ call.features = <<>>
     /\ ~call.pad
     /\ DirectHit(call.name))
    => /\ result.kind = "ok"
       /\ result.features = <<>>
       /\ Len(result.text) = 1
       /\ ForwardMaps(result.text[1], call.name)

\* A glyph with two code points, which a GSUB rule also emits, was resolved.
C1_Witness ==
    /\ IsInputFromName
    /\ call.features = <<>>
    /\ ~call.pad
    /\ Cardinality(TextsOf(call.name)) = 2
    /\ EmitPositions(call.name) # {}
    /\ result.kind = "ok"

(***************************************************************************)
(* C2.  A type 1 subtable maps A to B, B has no direct Unicode hit, A has  *)
(* one, and a feature record with tag "test" lists the owning lookup.      *)
(***************************************************************************)
\* The type 1 rule at place p maps A to B.
SingleRule(p, A, B) ==
    /\ Lookups[p[1]].LookupType = 1
    /\ Lookups[p[1]].SubTable[p[2]].mapping[p[3]] = <<A, B>>

\* C2 as stated: whenever such a rule and such a feature record exist,
\* input_from_name(B, features) returns (features + ["test"], text_of(A)).
C2_AsStated ==
    IsInputFromName =>
    \A A \in Glyphs, p \in EmitPositions(call.name) :
        (/\ ~DirectHit(call.name)
         /\ DirectHit(A)
         /\ SingleRule(p, A, call.name)
         /\ \E fi \in Listing(p[1] - 1) :
               font.GSUB.FeatureRecord[fi].FeatureTag = "test")
        => /\ result.kind = "ok"
           /\ result.features = Append(call.features, "test")
           /\ result.text \in TextsOf(A)

\* C2 amended: the same, when the rule A -> B is the first rule in table
\* order that emits B and the first feature record listing its lookup has
\* tag "test".
C2_FirstSingleRule ==
    IsInputFromName =>
    \A A \in Glyphs, p \in EmitPositions(call.name) :
        (/\ ~DirectHit(call.name)
         /\ DirectHit(A)
         /\ SingleRule(p, A, call.name)
         /\ IsFirstEmitting(p, call.name)
         /\ \E fi \in Listing(p[1] - 1) :
               /\ font.GSUB.FeatureRecord[fi].FeatureTag = "test"
               /\ \A fj \in Listing(p[1] - 1) : fi <= fj)
        => /\ result.kind = "ok"
           /\ result.features = Append(call.features, "test")
           /\ result.text \in TextsOf(A)

\* The first rule emitting B was taken although a later rule emits B too and
\* a later feature record with another tag lists the same lookup; the call
\* came with a feature of its own.
C2_Witness ==
    /\ IsInputFromName
    /\ \E A \in Glyphs, p \in EmitPositions(call.name) :
        /\ call.features # <<>>
        /\ ~DirectHit(call.name)
        /\ DirectHit(A)
        /\ SingleRule(p, A, call.name)
        /\ IsFirstEmitting(p, call.name)
        /\ Cardinality(EmitPositions(call.name)) > 1
        /\ \E fi, fj \in Listing(p[1] - 1) :
              /\ font.GSUB.FeatureRecord[fi].FeatureTag = "test"
              /\ font.GSUB.FeatureRecord[fj].FeatureTag # "test"
              /\ \A fk \in Listing(p[1] - 1) : fi <= fk
        /\ result.kind = "ok"

(***************************************************************************)
(* C3.  A type 4 subtable maps the components [A, C] to the ligature L; L  *)
(* has no direct Unicode hit, A and C have one.                            *)
(***************************************************************************)
\* The ligature record at place p makes L of first component A and
\* remaining components <<C>>.
LigatureRule(p, A, C, L) ==
    /\ Lookups[p[1]].LookupType = 4
    /\ Lookups[p[1]].SubTable[p[2]].ligatures[p[3]][1] = A
    /\ Lookups[p[1]].SubTable[p[2]].ligatures[p[3]][2][p[4]] = LigatureRecord(L, <<C>>)

TextsOfPair(A, C) == {ta \o tc : ta \in TextsOf(A), tc \in TextsOf(C)}

\* C3 as stated: whenever such a ligature record exists,
\* input_from_name(L, features) returns (features, text_of(A) + text_of(C));
\* stated for the calls that stay within the recursion limit (see C10).
C3_AsStated ==
    IsInputFromName =>
    \A A \in Glyphs, C \in Glyphs, p \in EmitPositions(call.name) :
        (/\ ~DirectHit(call.name)
         /\ DirectHit(A)
         /\ DirectHit(C)
         /\ LigatureRule(p, A, C, call.name)
         /\ result.kind # "RecursionError")
        => /\ result.kind = "ok"
           /\ result.features = call.features
           /\ result.text \in TextsOfPair(A, C)

\* C3 amended: the same, when the ligature record is the first rule in table
\* order that emits L.
C3_FirstLigatureRule ==
    IsInputFromName =>
    \A A \in Glyphs, C \in Glyphs, p \in EmitPositions(call.name) :
        (/\ ~DirectHit(call.name)
         /\ DirectHit(A)
         /\ DirectHit(C)
         /\ LigatureRule(p, A, C, call.name)
         /\ IsFirstEmitting(p, call.name))
        => /\ result.kind = "ok"
           /\ result.features = call.features
           /\ result.text \in TextsOfPair(A, C)

\* A ligature of two different components was resolved, with incoming
\* features, in a font where a later rule emits the ligature too and a
\* feature record lists the ligature's lookup.
C3_Witness ==
    /\ IsInputFromName
    /\ \E A \in Glyphs, C \in Glyphs, p \in EmitPositions(call.name) :
        /\ call.features # <<>>
        /\ ~DirectHit(call.name)
        /\ DirectHit(A)
        /\ DirectHit(C)
        /\ A # C
        /\ LigatureRule(p, A, C, call.name)
        /\ IsFirstEmitting(p, call.name)
        /\ Cardinality(EmitPositions(call.name)) > 1
        /\ Listing(p[1] - 1) # {}
        /\ result.kind = "ok"

(***************************************************************************)
(* C4.  Lookup k is of type 1 and listed by no feature record; a type 6    *)
(* subtable has a SubstLookupRecord for k and a lookahead context whose    *)
(* first glyph is X; the trigger glyph and X have direct Unicode hits.     *)
(***************************************************************************)
IsInputWithContext == call.op = "_input_with_context"

\* The type 6 subtable at q = <<lookup, subtable>> targets k and declares a
\* lookahead context starting with X.
LookAheadRule(q, k, X) ==
    /\ q \in ChainsTo(k)
    /\ Lookups[q[1]].SubTable[q[2]].LookAheadCoverage # <<>>
    /\ Lookups[q[1]].SubTable[q[2]].LookAheadCoverage[1][1] = X

ChainBefore(q, r) == q[1] < r[1] \/ (q[1] = r[1] /\ q[2] < r[2])

C4_Case(q, X) ==
    /\ Lookups[call.lookup_index + 1].LookupType = 1
    /\ Listing(call.lookup_index) = {}
    /\ DirectHit(call.glyph)
    /\ DirectHit(X)
    /\ LookAheadRule(q, call.lookup_index, X)

\* C4 as stated: whenever such a subtable exists, the text is
\* text_of(trigger) + text_of(X).
C4_AsStated ==
    IsInputWithContext =>
    \A X \in Glyphs, q \in ChainsTo(call.lookup_index) :
        C4_Case(q, X)
        => /\ result.kind = "ok"
           /\ result.text \in TextsOfPair(call.glyph, X)

\* C4 amended: the same, when that subtable is the first type 6 subtable in
\* table order that targets k and declares a lookahead or backtrack
\* context; its lookahead context is used also when it declares a backtrack
\* context too.
C4_FirstChainRule ==
    IsInputWithContext =>
    \A X \in Glyphs, q \in ChainsTo(call.lookup_index) :
        (/\ C4_Case(q, X)
         /\ \A r \in ChainsTo(call.lookup_index) : r = q \/ ChainBefore(q, r))
        => /\ result.kind = "ok"
           /\ result.text \in TextsOfPair(call.glyph, X)

\* The lookahead context was used where the subtable declares a backtrack
\* context with another first glyph too, and a later subtable targets the
\* lookup as well.
C4_Witness ==
    /\ IsInputWithContext
    /\ \E X \in Glyphs, q \in ChainsTo(call.lookup_index) :
        /\ C4_Case(q, X)
        /\ \A r \in ChainsTo(call.lookup_index) : r = q \/ ChainBefore(q, r)
        /\ Cardinality(ChainsTo(call.lookup_index)) > 1
        /\ X # call.glyph
        /\ Lookups[q[1]].SubTable[q[2]].BacktrackCoverage # <<>>
        /\ Lookups[q[1]].SubTable[q[2]].BacktrackCoverage[1][1] # X
        /\ result.kind = "ok"

(***************************************************************************)
(* C5.  For every glyph of the glyph order with a direct Unicode hit c,    *)
(* the list all_inputs() returns holds the entry ([], "  " + c) when the   *)
(* glyph's advance width is zero and ([], c) when it is not, and these     *)
(* entries stand in glyph-order order.                                     *)
(***************************************************************************)
IsAllInputs == call.op = "all_inputs"

\* The entries the claim allows for a glyph with a direct hit.
DirectEntries(g) ==
    {<<<<>>, IF font.width[g] = 0 THEN <<32, 32>> \o t ELSE t>> : t \in TextsOf(g)}

HitIndices == {j \in DOMAIN font.glyphOrder : DirectHit(font.glyphOrder[j])}

\* C5: the list all_inputs() returns holds, in glyph order, the padded or
\* unpadded entry of every glyph with a direct hit.
C5_DirectEntriesInOrder ==
    (IsAllInputs /\ pc = "returned")
    => \E pos \in [HitIndices -> DOMAIN inputs] :
          /\ \A j, k \in HitIndices : j < k => pos[j] < pos[k]
          /\ \A j \in HitIndices :
                inputs[pos[j]] \in DirectEntries(font.glyphOrder[j])

\* all_inputs() returned for a font with a zero-width and a non-zero-width
\* glyph that both have a direct hit, and a glyph that was dropped.
C5_Witness ==
    /\ IsAllInputs
    /\ pc = "returned"
    /\ \E j, k \in HitIndices :
          /\ font.width[font.glyphOrder[j]] = 0
          /\ font.width[font.glyphOrder[k]] # 0
    /\ Len(inputs) < Len(font.glyphOrder)

(***************************************************************************)
(* C6.  A glyph absent from the Unicode map resolves to None when the font *)
(* has no GSUB table, or no lookup list, or no type 1 mapping and no type  *)
(* 4 ligature record emitting it; all_inputs() has no entry for such a     *)
(* glyph: the length of the list it returns is the number of glyphs of the *)
(* glyph order whose resolution is not None.                               *)
(***************************************************************************)
Unreachable(g) ==
    /\ ~DirectHit(g)
    /\ \/ "GSUB" \notin font.tables
       \/ ~font.GSUB.hasLookupList
       \/ EmitPositions(g) = {}

\* The resolution all_inputs makes of a glyph is not None.
Resolves(g) ==
    input_from_name(g, <<>>, font.width[g] = 0, MaxDepth - 1).kind # "None"

\* C6: an unreachable glyph resolves to None, and the list all_inputs()
\* returns has exactly the entries of the glyphs not resolving to None.
C6_UnreachableIsAbsent ==
    /\ (IsInputFromName /\ Unreachable(call.name)) => result = [kind |-> "None"]
    /\ (IsAllInputs /\ pc = "returned")
       => /\ Len(inputs) =
               Cardinality({j \in DOMAIN font.glyphOrder :
                               Resolves(font.glyphOrder[j])})
          /\ Len(inputs) <=
               Cardinality({j \in DOMAIN font.glyphOrder :
                               ~Unreachable(font.glyphOrder[j])})

\* all_inputs() returned some entries for a font whose GSUB has rules, none
\* of them emitting one of its unmapped glyphs.
C6_Witness ==
    /\ IsAllInputs
    /\ pc = "returned"
    /\ Lookups # <<>>
    /\ \E j \in DOMAIN font.glyphOrder : Unreachable(font.glyphOrder[j])
    /\ inputs # <<>>

(***************************************************************************)
(* C7.  When the rule selected for a glyph is a type 1 rule of lookup k,   *)
(* and k is listed by no feature record and targeted by no type 6 subtable *)
(* with a lookahead or backtrack context, the call raises the error        *)
(* carrying k; the error leaves input_from_name, the sequence assembler    *)
(* and all_inputs unchanged, never as None.                                *)
(***************************************************************************)
Unactivated(k) == Listing(k) = {} /\ ChainsTo(k) = {}

\* The first rule emitting g is a type 1 rule of the unactivated lookup k.
SelectsUnactivated(g, k) ==
    /\ ~DirectHit(g)
    /\ \E p \in EmitPositions(g) :
          /\ IsFirstEmitting(p, g)
          /\ Lookups[p[1]].LookupType = 1
          /\ p[1] - 1 = k
    /\ Unactivated(k)

LookupIndices == {li - 1 : li \in DOMAIN Lookups}

\* C7: the error of the unactivated lookup k is the outcome of every call
\* that selects a rule of k, up to and out of all_inputs.
C7_InconsistentRuleTableRaises ==
    \A k \in LookupIndices :
        /\ (IsInputFromName /\ SelectsUnactivated(call.name, k))
           => result = [kind |-> "ValueError", lookup_index |-> k]
        /\ (IsInputWithContext /\ call.lookup_index = k /\ Unactivated(k))
           => result = [kind |-> "ValueError", lookup_index |-> k]
        /\ (/\ call.op = "_sequence_from_glyph_names"
            /\ call.glyphs # <<>>
            /\ SelectsUnactivated(call.glyphs[1], k))
           => result = [kind |-> "ValueError", lookup_index |-> k]
        /\ (IsAllInputs /\ pc \in {"loop", "returned"})
           => \A j \in 1..(i - 1) : ~SelectsUnactivated(font.glyphOrder[j], k)
        /\ (IsAllInputs /\ pc = "raised" /\ SelectsUnactivated(font.glyphOrder[i], k))
           => result = [kind |-> "ValueError", lookup_index |-> k]

\* all_inputs() was left by the error of a lookup that a type 6 subtable
\* targets, but with no context, after an earlier glyph had been processed.
C7_Witness ==
    /\ IsAllInputs
    /\ pc = "raised"
    /\ i > 1
    /\ \E k \in LookupIndices :
          /\ SelectsUnactivated(font.glyphOrder[i], k)
          /\ \E li \in DOMAIN Lookups :
                /\ Lookups[li].LookupType = 6
                /\ \E si \in DOMAIN Lookups[li].SubTable :
                      \E ri \in DOMAIN Lookups[li].SubTable[si].SubstLookupRecord :
                         Lookups[li].SubTable[si].SubstLookupRecord[ri] = k
          /\ result = [kind |-> "ValueError", lookup_index |-> k]

(***************************************************************************)
(* C8.  The rule search is first-match-wins with no backtracking: the      *)
(* outcome of input_from_name(g) for a glyph without direct hit is the     *)
(* outcome of resolving the first type 1 or type 4 rule, in table order,   *)
(* that emits g, whatever that outcome is and whatever later rules emit g. *)
(***************************************************************************)
\* The outcome of resolving the rule at place p on behalf of a call with
\* the given features: the context resolver on a type 1 rule's input glyph,
\* the sequence assembler on a ligature's components.
RuleOutcome(p, features) ==
    LET st == Lookups[p[1]].SubTable[p[2]]
    IN  IF Lookups[p[1]].LookupType = 1
        THEN _input_with_context(font.GSUB, st.mapping[p[3]][1], p[1] - 1,
                                 features, MaxDepth - 1)
        ELSE _sequence_from_glyph_names(
                 <<st.ligatures[p[3]][1]>> \o st.ligatures[p[3]][2][p[4]].Component,
                 features, MaxDepth - 1)

\* C8: the outcome for a glyph without direct hit is the outcome of the
\* first rule emitting it, and None when no rule does.
C8_FirstMatchWins ==
    (IsInputFromName /\ ~DirectHit(call.name))
    => /\ EmitPositions(call.name) = {} => result = [kind |-> "None"]
       /\ \A p \in EmitPositions(call.name) :
             IsFirstEmitting(p, call.name)
             => result = RuleOutcome(p, call.features)

\* The first rule emitting the glyph did not give an input, a later rule
\* emitting it would have, and the call gave none.
C8_Witness ==
    /\ IsInputFromName
    /\ ~DirectHit(call.name)
    /\ \E p, q \in EmitPositions(call.name) :
          /\ IsFirstEmitting(p, call.name)
          /\ RuleOutcome(p, call.features).kind \in {"None", "ValueError", "TypeError"}
          /\ RuleOutcome(q, call.features).kind = "ok"
    /\ result.kind # "ok"

(***************************************************************************)
(* C9.  The sequence assembler resolves its glyphs left to right, passing  *)
(* the features returned for one glyph to the resolution of the next, and  *)
(* returns the last features with the texts concatenated in list order; a  *)
(* glyph that resolves to None makes it raise, not return None or a part   *)
(* of the text.                                                            *)
(***************************************************************************)
IsSequence == call.op = "_sequence_from_glyph_names"

\* The resolution of the j-th glyph, given the features of the one before.
Element[j \in 1..MaxSequence] ==
    input_from_name(call.glyphs[j],
                    IF j = 1 THEN call.features ELSE Element[j - 1].features,
                    FALSE, MaxDepth - 1)

\* The glyphs before the j-th all resolved to an input.
ReachedElement(j) == \A k \in 1..(j - 1) : Element[k].kind = "ok"

\* The texts of the first j glyphs, one after the other.
ElementTexts[j \in 0..MaxSequence] ==
    IF j = 0 THEN <<>> ELSE ElementTexts[j - 1] \o Element[j].text

\* C9: the assembler returns the last features and the joined texts when
\* every glyph resolves, raises TypeError at the first glyph resolving to
\* None, and passes up the error of the first glyph that raises.
C9_SequenceThreadsFeatures ==
    IsSequence =>
    LET n == Len(call.glyphs)
    IN  /\ ReachedElement(n + 1)
           => result = [kind |-> "ok",
                        features |-> IF n = 0 THEN call.features
                                     ELSE Element[n].features,
                        text |-> ElementTexts[n]]
        /\ \A j \in 1..n :
              (ReachedElement(j) /\ Element[j].kind = "None")
              => result = [kind |-> "TypeError"]
        /\ \A j \in 1..n :
              (ReachedElement(j) /\ Element[j].kind \notin {"ok", "None"})
              => result = Element[j]

\* The first glyph was resolved through a rule that added a feature tag,
\* and the second glyph resolved to None.
C9_Witness ==
    /\ IsSequence
    /\ Len(call.glyphs) = 2
    /\ Element[1].kind = "ok"
    /\ Element[1].features # call.features
    /\ Element[2].kind = "None"
    /\ result = [kind |-> "TypeError"]

(***************************************************************************)
(* C10.  For every font and glyph the mutual recursion of input_from_name, *)
(* _input_with_context and _sequence_from_glyph_names ends of itself, with *)
(* an input, None or the inconsistency error, also when the substitution   *)
(* rules are cyclic: no call runs into the interpreter's recursion limit.  *)
(***************************************************************************)
\* C10: no call ends in the recursion error.
C10_RecursionTerminates == result.kind # "RecursionError"

=============================================================================
